---- MODULE Spec2Model ----
(***************************************************************************)
(* A model of the connection layer of go-dbus (dbus.go, message.go): the   *)
(* process-wide serial counter, the reply-channel table, the caller        *)
(* goroutines running Call / Handle / Emit, the reader goroutine running   *)
(* handleReplies / popMessage / dispatch, and the bus at the other end of  *)
(* the transport.                                                          *)
(*                                                                         *)
(* Every Go statement that touches state shared between goroutines is one  *)
(* step; the code takes no lock, so steps of different goroutines          *)
(* interleave freely.                                                      *)
(***************************************************************************)
EXTENDS Integers, Sequences, FiniteSets, TLC

\* Number of user goroutines; each runs one of Call, Handle, Emit.
MaxCalls == 1
\* Number of frames the bus sends during a run.
MaxFrames == 2
\* Width of the serial counter in the model (uint32 in the code).
SerialBits == 3

\* The call made by _SendHello on behalf of Authenticate.
HelloCall == 0
\* A nil channel: the zero value read from the map for a missing key.
NilChan == -1

Users == 1..MaxCalls
Calls == {HelloCall} \cup Users

\* Message types (message.go); "bad" is a frame popMessage cannot read
\* (malformed endianness tag or short read).
TypeMethodCall == "method_call"
TypeMethodReturn == "method_return"
TypeError == "error"
TypeSignal == "signal"
TypeBad == "bad"
FrameTypes == {TypeMethodCall, TypeMethodReturn, TypeError, TypeSignal}

\* Values of the member header field of signals and match rules.
Members == {1, 2}
\* Values of the single body parameter of a frame.
Bodies == {1, 2}
\* The reply-serial header field of frames the bus sends unasked.
ReplySerialInputs == {0, 1}
\* The counter is a package variable shared by every connection of the
\* process, so a connection can start with any value of it.
InitSerials == {0, 2 ^ SerialBits - 2}

NoFrame == [id |-> 0, type |-> "none", replySerial |-> 0, answers |-> NilChan,
            member |-> 0, body |-> 0]

\* A nil signature node, and the result of a parse that has not been made.
NilSig == [kind |-> "nil"]
NoParse == [sig |-> NilSig, rest |-> <<>>, err |-> "none"]
\* A msgData with no data, and the results of a decoding not made.
NoMsg == [Endianness |-> "little", Data |-> <<>>, Idx |-> 0, panic |-> "nil"]
NoHdr == [Serial |-> 0, ReplySerial |-> 0]
NoOut == [vals |-> <<>>, Idx |-> 0, err |-> "none", panic |-> "nil"]

NoResult == [returned |-> FALSE, err |-> "nil", params |-> 0, got |-> "none"]

VARIABLES
    messageSerial,     \* var messageSerial uint32
    connOpen,          \* whether p.conn is open (writes and reads succeed)
    authState,         \* "unauth", "ok" or "failed": outcome of Authenticate
    readerPc,          \* position of the handleReplies goroutine
    rmsg,              \* frame popMessage returned to handleReplies
    rch,               \* local variable ch of dispatch
    inbox,             \* frames sent by the bus and not read yet
    outbox,            \* frames written to the transport
    nframes,           \* number of frames the bus has sent
    replyChans,        \* p.replyChans: serial -> channel (named by its call)
    chan,              \* contents of each call's reply channel (capacity 1)
    pc,                \* position of each call's goroutine
    serial,            \* msg.serial of each goroutine's outbound message
    ret,               \* what the operation returned to its caller
    signalMatchRules,  \* p.signalMatchRules
    invoked,           \* handler invocations: <<frame id, rule index>>
    uniqName           \* p.uniqName

\* The state of the codec (marshall.go), which the connection layer leaves
\* alone: the signature parser's input, its loop variables and its results.
VARIABLES
    sigText,           \* the string given to the signature parser
    sigPc,             \* position in mustParseSig / parseSignature
    sigOne,            \* what parseOneSignature(sigText) returned
    sigRest,           \* parseSignature: s, the text still to parse
    sigList,           \* parseSignature: ss, the nodes parsed so far
    sigErr             \* parseSignature: the error it returns

sigVars == <<sigText, sigPc, sigOne, sigRest, sigList, sigErr>>

\* A value on its way through an encoder and a decoder.
VARIABLES
    valSig,            \* the signature node of the value
    valVal,            \* the value given to the encoder
    valStart,          \* the offset at which the value is encoded
    valPc,             \* "off", "input", "encoded", "decoded", "framed",
                       \* "unmarshalled", "crashed", "stream", "closed" or
                       \* "scanned"
    valEnc,            \* what produced the bytes
    valMsg,            \* the msgData after encoding
    valErr,            \* the error the encoder returned
    valDec,            \* what decoded the bytes
    valOut,            \* the decoder's results
    valHdr             \* the message a frame is made of, or what the peer
                       \* has put on the stream

valVars == <<valSig, valVal, valStart, valPc, valEnc, valMsg, valErr, valDec,
             valOut, valHdr>>

codecVars == <<sigVars, valVars>>

\* The state of the connection layer.
connVars == <<messageSerial, connOpen, authState, readerPc, rmsg, rch, inbox,
              outbox, nframes, replyChans, chan, pc, serial, ret,
              signalMatchRules, invoked, uniqName>>

vars == <<messageSerial, connOpen, authState, readerPc, rmsg, rch, inbox,
          outbox, nframes, replyChans, chan, pc, serial, ret,
          signalMatchRules, invoked, uniqName, codecVars>>

----------------------------------------------------------------------------
\* message.go: generateSerial, atomic.AddUint32(&messageSerial, 1).
generateSerial(s) == (s + 1) % (2 ^ SerialBits)

\* _Unmarshal(buff) starts with msg := NewMessage(), which draws a serial for
\* the message it fills from the received bytes.
_Unmarshal(s) == generateSerial(s)

\* MatchRule._Match: an AND of equality predicates over header fields.
_Match(rule, msg) == msg.type = TypeSignal /\ rule.member = msg.member

\* dbus.go: ch := p.replyChans[serial]
dispatchLookup(table, s) == IF s \in DOMAIN table THEN table[s] ELSE NilChan

\* A dispatch that forgets to remove the entry it has looked up.
dispatchDelete_Keep(table, s) == table

\* dbus.go: delete(p.replyChans, serial)
dispatchDelete(table, s) == [x \in DOMAIN table \ {s} |-> table[x]]

\* dbus.go: p.replyChans[seri] = replyChan
sendSyncInsert(table, s, k) == (s :> k) @@ table

\* The connection state of the state machine: authenticated, Hello answered
\* and the transport open.
Active ==
    /\ authState = "ok"
    /\ pc[HelloCall] = "done"
    /\ ret[HelloCall].got = TypeMethodReturn
    /\ connOpen

\* No signature is being parsed.
SigIdle ==
    /\ sigText = <<>>
    /\ sigPc = "off"
    /\ sigOne = NoParse
    /\ sigRest = <<>>
    /\ sigList = <<>>
    /\ sigErr = "nil"

\* No connection has been made.
ConnIdle ==
    /\ messageSerial = 0
    /\ connOpen = FALSE
    /\ authState = "unauth"
    /\ readerPc = "off"
    /\ rmsg = NoFrame
    /\ rch = NilChan
    /\ inbox = <<>>
    /\ outbox = {}
    /\ nframes = 0
    /\ replyChans = [s \in {} |-> NilChan]
    /\ chan = [k \in Calls |-> <<>>]
    /\ pc = [k \in Calls |-> "idle"]
    /\ serial = [k \in Calls |-> 0]
    /\ ret = [k \in Calls |-> NoResult]
    /\ signalMatchRules = <<>>
    /\ invoked = {}
    /\ uniqName = 0

\* No value is being encoded or decoded.
ValIdle ==
    /\ valSig = NilSig
    /\ valVal = 0
    /\ valStart = 0
    /\ valPc = "off"
    /\ valEnc = "none"
    /\ valMsg = NoMsg
    /\ valErr = "nil"
    /\ valDec = "none"
    /\ valOut = NoOut
    /\ valHdr = NoHdr

Init ==
    /\ messageSerial \in InitSerials
    /\ connOpen = TRUE
    /\ authState = "unauth"
    /\ readerPc = "off"
    /\ rmsg = NoFrame
    /\ rch = NilChan
    /\ inbox = <<>>
    /\ outbox = {}
    /\ nframes = 0
    /\ replyChans = [s \in {} |-> NilChan]
    /\ chan = [k \in Calls |-> <<>>]
    /\ pc = [k \in Calls |-> "idle"]
    /\ serial = [k \in Calls |-> 0]
    /\ ret = [k \in Calls |-> NoResult]
    /\ signalMatchRules = <<>>
    /\ invoked = {}
    /\ uniqName = 0
    /\ SigIdle
    /\ ValIdle

----------------------------------------------------------------------------
\* The caller goroutines.

\* message.go: NewMessage, run by goroutine k: msg.serial = generateSerial().
NewMessage(k) ==
    /\ messageSerial' = generateSerial(messageSerial)
    /\ serial' = [serial EXCEPT ![k] = generateSerial(messageSerial)]

\* What Call hands back once sendSync has returned: (ret, nil), whatever
\* sendSync returned (dbus.go 438-443).
CallReturns(k, params, frame) ==
    ret' = [ret EXCEPT ![k] = [returned |-> TRUE, err |-> "nil",
                               params |-> params, got |-> frame.type]]

\* dbus.go: sendSync: rawmsg, err := msg._Marshal(), a computation local to
\* goroutine k whose outcome ok is decided by the message: on an error
\* sendSync returns it and Call returns (nil, nil).
Marshalled(k, ok) ==
    IF ok
    THEN /\ pc' = [pc EXCEPT ![k] = "insert"]
         /\ ret' = ret
    ELSE /\ pc' = [pc EXCEPT ![k] = "done"]
         /\ CallReturns(k, 0, NoFrame)

\* dbus.go: Authenticate, authentication succeeded: the reader goroutine is
\* started and _SendHello calls Call, which builds its message.
AuthenticateOK ==
    /\ authState = "unauth"
    /\ connOpen
    /\ authState' = "ok"
    /\ readerPc' = "pop"
    /\ NewMessage(HelloCall)
    /\ Marshalled(HelloCall, TRUE)
    /\ UNCHANGED <<connOpen, rmsg, rch, inbox, outbox, nframes, replyChans,
                   chan, signalMatchRules, invoked, uniqName, codecVars>>

\* dbus.go: Authenticate, both mechanisms failed: return err.
AuthenticateFail ==
    /\ authState = "unauth"
    /\ authState' = "failed"
    /\ UNCHANGED <<messageSerial, connOpen, readerPc, rmsg, rch, inbox,
                   outbox, nframes, replyChans, chan, pc, serial, ret,
                   signalMatchRules, invoked, uniqName, codecVars>>

\* dbus.go: Call, from its entry to the marshalling in sendSync. No
\* connection state is tested.
CallStart(k, ok) ==
    /\ pc[k] = "idle"
    /\ NewMessage(k)
    /\ Marshalled(k, ok)
    /\ UNCHANGED <<connOpen, authState, readerPc, rmsg, rch, inbox, outbox,
                   nframes, replyChans, chan, signalMatchRules, invoked,
                   uniqName, codecVars>>

\* dbus.go: Handle: append the rule and handler, then Call AddMatch with the
\* rule's text, up to the marshalling in sendSync.
HandleStart(k, m) ==
    /\ pc[k] = "idle"
    /\ signalMatchRules' = Append(signalMatchRules, [member |-> m])
    /\ NewMessage(k)
    /\ Marshalled(k, TRUE)
    /\ UNCHANGED <<connOpen, authState, readerPc, rmsg, rch, inbox, outbox,
                   nframes, replyChans, chan, invoked, uniqName, codecVars>>

\* dbus.go: Emit: NewMessage, _Marshal, p.conn.Write, return the write's
\* error. No connection state is tested.
Emit(k) ==
    /\ pc[k] = "idle"
    /\ NewMessage(k)
    /\ pc' = [pc EXCEPT ![k] = "done"]
    /\ IF connOpen
       THEN /\ outbox' = outbox \cup
                   {[serial |-> generateSerial(messageSerial),
                     type |-> TypeSignal, call |-> k]}
            /\ ret' = [ret EXCEPT ![k] = [NoResult EXCEPT !.returned = TRUE]]
       ELSE /\ outbox' = outbox
            /\ ret' = [ret EXCEPT ![k] =
                         [NoResult EXCEPT !.returned = TRUE, !.err = "write"]]
    /\ UNCHANGED <<connOpen, authState, readerPc, rmsg, rch, inbox, nframes,
                   replyChans, chan, signalMatchRules, invoked, uniqName,
                   codecVars>>

\* dbus.go: sendSync: replyChan := make(chan []byte, 1);
\* p.replyChans[seri] = replyChan.
Insert(k) ==
    /\ pc[k] = "insert"
    /\ replyChans' = sendSyncInsert(replyChans, serial[k], k)
    /\ pc' = [pc EXCEPT ![k] = "write"]
    /\ UNCHANGED <<messageSerial, connOpen, authState, readerPc, rmsg, rch,
                   inbox, outbox, nframes, chan, serial, ret,
                   signalMatchRules, invoked, uniqName, codecVars>>

\* dbus.go: sendSync: p.conn.Write(rawmsg); on an error close the connection
\* and return the error (Call then returns (nil, nil)).
Write(k) ==
    /\ pc[k] = "write"
    /\ IF connOpen
       THEN /\ outbox' = outbox \cup
                   {[serial |-> serial[k], type |-> TypeMethodCall, call |-> k]}
            /\ pc' = [pc EXCEPT ![k] = "wait"]
            /\ UNCHANGED <<connOpen, ret>>
       ELSE /\ connOpen' = FALSE
            /\ pc' = [pc EXCEPT ![k] = "done"]
            /\ CallReturns(k, 0, NoFrame)
            /\ UNCHANGED outbox
    /\ UNCHANGED <<messageSerial, authState, readerPc, rmsg, rch, inbox,
                   nframes, replyChans, chan, serial, signalMatchRules,
                   invoked, uniqName, codecVars>>

\* The rules of p.signalMatchRules that match msg.
Matching(msg) ==
    {i \in DOMAIN signalMatchRules : _Match(signalMatchRules[i], msg)}

\* dbus.go: sendSync from "rawreply := <-replyChan" to its return, and the
\* return of Call: _Unmarshal (which builds its result with NewMessage and so
\* draws a serial), then the switch on reply.Type.
Receive(k) ==
    /\ pc[k] = "wait"
    /\ chan[k] # <<>>
    /\ LET reply == Head(chan[k]) IN
        /\ chan' = [chan EXCEPT ![k] = Tail(chan[k])]
        /\ messageSerial' = _Unmarshal(messageSerial)
        /\ invoked' = IF reply.type = TypeSignal
                      THEN invoked \cup {<<reply.id, i>> : i \in Matching(reply)}
                      ELSE invoked
        /\ CallReturns(k, IF reply.type \in {TypeMethodReturn, TypeError}
                          THEN reply.body ELSE 0, reply)
    /\ pc' = [pc EXCEPT ![k] = "done"]
    /\ UNCHANGED <<connOpen, authState, readerPc, rmsg, rch, inbox, outbox,
                   nframes, replyChans, serial, signalMatchRules,
                   uniqName, codecVars>>

----------------------------------------------------------------------------
\* The reader goroutine.

\* dbus.go: handleReplies calls popMessage, which reads one frame and returns
\* it with the reply serial of its header fields; a malformed endianness tag
\* or a short read is an error, on which handleReplies returns.
Pop ==
    /\ readerPc = "pop"
    /\ inbox # <<>>
    /\ inbox' = Tail(inbox)
    /\ IF Head(inbox).type = TypeBad
       THEN /\ readerPc' = "stopped"
            /\ rmsg' = NoFrame
       ELSE /\ readerPc' = "dispatch"
            /\ rmsg' = Head(inbox)
    /\ UNCHANGED <<messageSerial, connOpen, authState, rch, outbox, nframes,
                   replyChans, chan, pc, serial, ret, signalMatchRules,
                   invoked, uniqName, codecVars>>

\* dbus.go: popMessage: r.Peek(16) fails on a closed transport, and
\* handleReplies returns the error.
PopFail ==
    /\ readerPc = "pop"
    /\ ~connOpen
    /\ readerPc' = "stopped"
    /\ UNCHANGED <<messageSerial, connOpen, authState, rmsg, rch, inbox,
                   outbox, nframes, replyChans, chan, pc, serial, ret,
                   signalMatchRules, invoked, uniqName, codecVars>>

\* dbus.go: dispatch: if serial == 0 { return nil };
\* ch := p.replyChans[serial].
DispatchLookup ==
    /\ readerPc = "dispatch"
    /\ IF rmsg.replySerial = 0
       THEN /\ readerPc' = "pop"
            /\ rmsg' = NoFrame
            /\ rch' = rch
       ELSE /\ readerPc' = "delete"
            /\ rch' = dispatchLookup(replyChans, rmsg.replySerial)
            /\ rmsg' = rmsg
    /\ UNCHANGED <<messageSerial, connOpen, authState, inbox, outbox, nframes,
                   replyChans, chan, pc, serial, ret, signalMatchRules,
                   invoked, uniqName, codecVars>>

\* dbus.go: dispatch: delete(p.replyChans, serial);
\* if ch == nil { return errUnknownSerial(serial) }, which handleReplies logs.
DispatchDelete ==
    /\ readerPc = "delete"
    /\ replyChans' = dispatchDelete(replyChans, rmsg.replySerial)
    /\ IF rch = NilChan
       THEN /\ readerPc' = "pop"
            /\ rmsg' = NoFrame
       ELSE /\ readerPc' = "send"
            /\ rmsg' = rmsg
    /\ UNCHANGED <<messageSerial, connOpen, authState, rch, inbox, outbox,
                   nframes, chan, pc, serial, ret, signalMatchRules,
                   invoked, uniqName, codecVars>>

\* dbus.go: dispatch: ch <- rawmsg, on a channel of capacity 1.
DispatchSend ==
    /\ readerPc = "send"
    /\ Len(chan[rch]) < 1
    /\ chan' = [chan EXCEPT ![rch] = Append(chan[rch], rmsg)]
    /\ readerPc' = "pop"
    /\ rmsg' = NoFrame
    /\ rch' = NilChan
    /\ UNCHANGED <<messageSerial, connOpen, authState, inbox, outbox, nframes,
                   replyChans, pc, serial, ret, signalMatchRules, invoked,
                   uniqName, codecVars>>

----------------------------------------------------------------------------
\* The bus, at the other end of the transport.

BusPuts(frame) ==
    /\ connOpen
    /\ nframes < MaxFrames
    /\ nframes' = nframes + 1
    /\ inbox' = Append(inbox, [frame EXCEPT !.id = nframes + 1])

\* The bus answers a method call it has read, with a method return or an
\* error whose reply serial is the serial of the call.
BusReply(f, t, b) ==
    /\ f \in outbox
    /\ f.type = TypeMethodCall
    /\ outbox' = outbox \ {f}
    /\ BusPuts([NoFrame EXCEPT !.type = t, !.replySerial = f.serial,
                               !.answers = f.call, !.body = b])
    /\ UNCHANGED <<messageSerial, connOpen, authState, readerPc, rmsg, rch,
                   replyChans, chan, pc, serial, ret, signalMatchRules,
                   invoked, uniqName, codecVars>>

\* A frame nobody asked for: a signal, a method call, a stray or repeated
\* reply, with any reply serial.
BusSend(t, rs, m, b) ==
    /\ BusPuts([NoFrame EXCEPT !.type = t, !.replySerial = rs,
                               !.member = m, !.body = b])
    /\ UNCHANGED <<messageSerial, connOpen, authState, readerPc, rmsg, rch,
                   outbox, replyChans, chan, pc, serial, ret,
                   signalMatchRules, invoked, uniqName, codecVars>>

\* Bytes that are no frame: a bad endianness tag, or a stream that ends
\* inside a frame.
BusSendBad ==
    /\ BusPuts([NoFrame EXCEPT !.type = TypeBad])
    /\ UNCHANGED <<messageSerial, connOpen, authState, readerPc, rmsg, rch,
                   outbox, replyChans, chan, pc, serial, ret,
                   signalMatchRules, invoked, uniqName, codecVars>>

\* The peer closes the transport, or an I/O error breaks it.
TransportFail ==
    /\ connOpen
    /\ connOpen' = FALSE
    /\ UNCHANGED <<messageSerial, authState, readerPc, rmsg, rch, inbox,
                   outbox, nframes, replyChans, chan, pc, serial, ret,
                   signalMatchRules, invoked, uniqName, codecVars>>

----------------------------------------------------------------------------
Next ==
    \/ AuthenticateOK
    \/ AuthenticateFail
    \/ \E k \in Users, ok \in BOOLEAN : CallStart(k, ok)
    \/ \E k \in Users, m \in Members : HandleStart(k, m)
    \/ \E k \in Users : Emit(k)
    \/ \E k \in Calls : Insert(k)
    \/ \E k \in Calls : Write(k)
    \/ \E k \in Calls : Receive(k)
    \/ Pop
    \/ PopFail
    \/ DispatchLookup
    \/ DispatchDelete
    \/ DispatchSend
    \/ \E f \in outbox, t \in {TypeMethodReturn, TypeError}, b \in Bodies :
           BusReply(f, t, b)
    \/ \E rs \in ReplySerialInputs, m \in Members :
           BusSend(TypeSignal, rs, m, 0)
    \/ \E rs \in ReplySerialInputs : BusSend(TypeMethodCall, rs, 0, 0)
    \/ \E rs \in ReplySerialInputs : BusSend(TypeMethodReturn, rs, 0, 0)
    \/ BusSendBad
    \/ TransportFail

Spec == Init /\ [][Next]_vars

----------------------------------------------------------------------------
\* The calls that are waiting for a reply: registered and written, with
\* nothing handed to them yet.
Waiting(k) == pc[k] = "wait" /\ chan[k] = <<>>

\* Goroutine k has drawn the serial of its outbound message.
HasSerial(k) == pc[k] # "idle"

C2_RegisteredBeforeReply ==
    [][/\ \A k \in Calls :
            (\E f \in outbox' \ outbox : f.call = k /\ f.type = TypeMethodCall)
                => pc[k] = "write"
       /\ (/\ readerPc = "dispatch"
           /\ readerPc' # "dispatch"
           /\ rmsg.answers # NilChan
           /\ Waiting(rmsg.answers)) =>
                serial[rmsg.answers] \in DOMAIN replyChans]_vars

\* C3: once the reader has stopped and nothing more can happen, no call is
\* left waiting on its reply channel.
C3_WaitersReleased ==
    (readerPc = "stopped" /\ ~ENABLED Next) => \A k \in Calls : pc[k] # "wait"

\* C4: the table holds only serials of calls that are still waiting: every
\* entry leads to a call that has not returned and whose serial is the key.
C4_OnlyWaitingCalls ==
    \A s \in DOMAIN replyChans :
        /\ pc[replyChans[s]] \in {"write", "wait"}
        /\ serial[replyChans[s]] = s

\* C5: a call that was handed a frame of type error returns a non-nil error.
C5_ErrorReplyFails ==
    \A k \in Calls :
        (ret[k].returned /\ ret[k].got = TypeError) => ret[k].err # "nil"

\* C6: when the reader is done with a signal frame without handing it to a
\* call, the handler of every registered rule that matches it has been
\* invoked with it.
C6_SignalReachesHandlers ==
    [][(/\ readerPc \in {"dispatch", "delete"}
        /\ readerPc' = "pop"
        /\ rmsg.type = TypeSignal) =>
            \A i \in Matching(rmsg) : <<rmsg.id, i>> \in invoked']_vars

\* C7: every serial drawn for an outbound message is nonzero, and no two
\* outbound messages have the same serial.
C7_SerialsNonzeroDistinct ==
    \A k \in Calls :
        HasSerial(k) =>
            /\ serial[k] # 0
            /\ \A j \in Calls : (HasSerial(j) /\ j # k) => serial[j] # serial[k]

\* C8: when the reader finds no entry for the nonzero reply serial of a frame,
\* the rest of dispatch leaves the table and every channel as they are, and
\* the reader goes back to reading.
C8_UnmatchedDropped ==
    [][(readerPc = "delete" /\ rch = NilChan /\ readerPc' # "delete") =>
            /\ replyChans' = replyChans
            /\ chan' = chan
            /\ readerPc' = "pop"]_vars

\* C9: a Call, Emit or Handle started by a user while the connection is not
\* Active returns at once with an error, writes nothing and does not go on
\* into sendSync.
C9_OnlyActiveAccepts ==
    [][\A k \in Users :
         (pc[k] = "idle" /\ pc'[k] # "idle" /\ ~Active) =>
            /\ pc'[k] = "done"
            /\ ret'[k].err # "nil"
            /\ outbox' = outbox]_vars

\* C10: once Authenticate has succeeded the Hello call has been started, and
\* once Hello has returned with a method return, the stored unique name is the
\* name that reply carried.
C10_HelloNameStored ==
    /\ authState = "ok" => HasSerial(HelloCall)
    /\ (ret[HelloCall].returned /\ ret[HelloCall].got = TypeMethodReturn) =>
            uniqName = ret[HelloCall].params

\* The tasks whose control is at a statement that reads or writes
\* p.replyChans: a caller at the store of sendSync, the reader at the lookup
\* (past the serial == 0 test) or at the delete of dispatch. No statement
\* stands between a task's arrival there and the access itself.
AtTable ==
    {k \in Calls : pc[k] = "insert"}
      \cup (IF \/ readerPc = "delete"
               \/ (readerPc = "dispatch" /\ rmsg.replySerial # 0)
            THEN {"reader"} ELSE {})

\* C11: the accesses to the reply-channel table exclude each other: at no
\* time are two tasks (a caller and the reader, or two callers) both at a
\* statement that accesses the table.
C11_TableExclusive == Cardinality(AtTable) <= 1

\* C12: a Call that returns without its request having been written (the
\* marshalling or the write failed) returns a non-nil error.
C12_UnsentCallFails ==
    [][\A k \in Calls :
         (/\ pc[k] \in {"idle", "write"}
          /\ pc'[k] = "done"
          /\ outbox' = outbox) => ret'[k].err # "nil"]_vars

----------------------------------------------------------------------------
\* The signature parser (marshall.go). A signature is a sequence of
\* one-character strings; a node is a record tagged with its kind.

\* Length of the longest signature given to the parser.
MaxSigLen == 5

\* marshall.go: the type codes parseOneSignature accepts as basic types.
BasicCodes ==
    {"b", "y", "n", "q", "i", "u", "x", "t", "d", "s", "o", "g", "v"}

\* The characters of the signatures given to the parser: two basic codes,
\* the array code and the brackets.
SigAlphabet == {"i", "s", "a", "(", ")", "{", "}"}

\* The basic codes among them.
SigBasics == BasicCodes \cap SigAlphabet

\* marshall.go: type basicSig, arraySig, structSig, dictSig.
basicSig(c) == [kind |-> "basic", code |-> c]
arraySig(elem) == [kind |-> "array", elem |-> elem]
structSig(sigs) == [kind |-> "struct", fields |-> sigs]
dictSig(key, value) == [kind |-> "dict", key |-> key, value |-> value]

\* marshall.go: the String methods of the four node types.
RECURSIVE String(_)
String(sig) ==
    LET RECURSIVE Join(_)
        Join(sigs) == IF sigs = <<>> THEN <<>>
                      ELSE String(Head(sigs)) \o Join(Tail(sigs))
    IN CASE sig.kind = "basic" -> <<sig.code>>
         [] sig.kind = "array" -> <<"a">> \o String(sig.elem)
         [] sig.kind = "struct" -> <<"(">> \o Join(sig.fields) \o <<")">>
         [] sig.kind = "dict" ->
                <<"a", "{", sig.key>> \o String(sig.value) \o <<"}">>

\* Go's s[1:].
Rest1(s) == SubSeq(s, 2, Len(s))

\* A struct parser that takes the end of the text for a closing parenthesis.
missingCloseParen_EndCloses(s) == Len(s) # 0 /\ Head(s) # ")"

\* marshall.go: parseOneSignature: if len(s) == 0 || s[0] != ')'.
missingCloseParen(s) == Len(s) = 0 \/ Head(s) # ")"

\* marshall.go: parseOneSignature, returning (sig, rest, err); structLoop is
\* its loop "for len(s) > 0 && s[0] != ')'" with the loop's s and sigs.
RECURSIVE parseOneSignature(_), structLoop(_, _)
structLoop(s, sigs) ==
    IF Len(s) > 0 /\ Head(s) # ")"
    THEN LET r == parseOneSignature(s) IN
         IF r.err # "nil"
         THEN [sigs |-> sigs, s |-> s, err |-> r.err]
         ELSE structLoop(r.rest, Append(sigs, r.sig))
    ELSE [sigs |-> sigs, s |-> s, err |-> "nil"]

parseOneSignature(s) ==
    IF Len(s) = 0
    THEN [sig |-> NilSig, rest |-> <<>>, err |-> "missing type"]
    ELSE IF Head(s) \in BasicCodes
    THEN [sig |-> basicSig(Head(s)), rest |-> Rest1(s), err |-> "nil"]
    ELSE IF Head(s) = "("
    THEN LET l == structLoop(Rest1(s), <<>>) IN
         IF l.err # "nil"
         THEN [sig |-> NilSig, rest |-> l.s, err |-> l.err]
         ELSE IF missingCloseParen(l.s)
         THEN [sig |-> NilSig, rest |-> <<>>, err |-> "missing )"]
         ELSE [sig |-> structSig(l.sigs), rest |-> Rest1(l.s), err |-> "nil"]
    ELSE IF Head(s) = "a" /\ ~(Len(s) > 1 /\ s[2] = "{")
    THEN LET r == parseOneSignature(Rest1(s)) IN
         IF r.err # "nil"
         THEN [sig |-> NilSig, rest |-> <<>>, err |-> r.err]
         ELSE [sig |-> arraySig(r.sig), rest |-> r.rest, err |-> "nil"]
    ELSE [sig |-> NilSig, rest |-> <<>>, err |-> "invalid signature"]

\* What the signature parser leaves alone.
sigOthers == <<connVars, valVars>>

\* A caller of the parser starts to write down the string it will hand over.
SigInit ==
    /\ ConnIdle
    /\ ValIdle
    /\ sigText = <<>>
    /\ sigPc = "text"
    /\ sigOne = NoParse
    /\ sigRest = <<>>
    /\ sigList = <<>>
    /\ sigErr = "nil"

\* The caller's string gets one more character: any string of at most
\* MaxSigLen characters can be handed to the parser.
SigChar(c) ==
    /\ sigPc = "text"
    /\ Len(sigText) < MaxSigLen
    /\ sigText' = Append(sigText, c)
    /\ UNCHANGED <<sigPc, sigOne, sigRest, sigList, sigErr>>
    /\ UNCHANGED sigOthers

\* marshall.go: mustParseSig, scan, put: parseOneSignature(sigstr); then the
\* same string is given to parseSignature.
ParseOne ==
    /\ sigPc = "text"
    /\ sigOne' = parseOneSignature(sigText)
    /\ sigPc' = "loop"
    /\ sigRest' = sigText
    /\ UNCHANGED <<sigText, sigList, sigErr>>
    /\ UNCHANGED sigOthers

\* marshall.go: parseSignature: one turn of "for len(s) > 0".
ParseSignatureTurn ==
    /\ sigPc = "loop"
    /\ Len(sigRest) > 0
    /\ LET r == parseOneSignature(sigRest) IN
         IF r.err # "nil"
         THEN /\ sigList' = <<>>
              /\ sigErr' = r.err
              /\ sigPc' = "done"
              /\ sigRest' = sigRest
         ELSE /\ sigList' = Append(sigList, r.sig)
              /\ sigRest' = r.rest
              /\ UNCHANGED <<sigErr, sigPc>>
    /\ UNCHANGED <<sigText, sigOne>>
    /\ UNCHANGED sigOthers

\* marshall.go: parseSignature: the loop ends and "return ss, nil".
ParseSignatureReturn ==
    /\ sigPc = "loop"
    /\ Len(sigRest) = 0
    /\ sigPc' = "done"
    /\ UNCHANGED <<sigText, sigOne, sigRest, sigList, sigErr>>
    /\ UNCHANGED sigOthers

SigNext ==
    \/ \E c \in SigAlphabet : SigChar(c)
    \/ ParseOne
    \/ ParseSignatureTurn
    \/ ParseSignatureReturn

SpecSig == SigInit /\ [][SigNext]_vars

\* The nodes of the type grammar whose text has at most n characters: a basic
\* code, an array of a node, a struct of one or more nodes, a dictionary with
\* a basic key and a node as value; FieldSeqs(n) are the non-empty sequences
\* of nodes whose texts have at most n characters together.
RECURSIVE NodesUpTo(_), FieldSeqs(_)
NodesUpTo(n) ==
    IF n <= 0 THEN {}
    ELSE {basicSig(c) : c \in SigBasics}
           \cup {arraySig(e) : e \in NodesUpTo(n - 1)}
           \cup {structSig(f) : f \in FieldSeqs(n - 2)}
           \cup {dictSig(k, v) : k \in SigBasics, v \in NodesUpTo(n - 4)}

FieldSeqs(n) ==
    IF n <= 0 THEN {}
    ELSE UNION {{<<e>>} \cup {<<e>> \o f : f \in FieldSeqs(n - Len(String(e)))} :
                   e \in NodesUpTo(n)}

\* The valid single types with at most MaxSigLen characters, and their texts.
SigNodes == NodesUpTo(MaxSigLen)
ValidTexts == {String(n) : n \in SigNodes}

\* C13: for a valid single-type signature, parseOneSignature returns no
\* error, an empty rest, and a node whose String() is the signature.
C13_SignatureRoundTrip ==
    (sigOne # NoParse /\ sigText \in ValidTexts) =>
        /\ sigOne.err = "nil"
        /\ sigOne.rest = <<>>
        /\ String(sigOne.sig) = sigText

\* An array code with no element type after it: at the end of the text or
\* before a closing bracket.
ArrayWithoutElem(s) ==
    \E i \in 1..Len(s) :
        s[i] = "a" /\ (i = Len(s) \/ s[i + 1] \in {")", "}"})

\* The number of brackets open with no bracket close after them to match.
RECURSIVE Unmatched(_, _, _, _)
Unmatched(s, open, close, d) ==
    IF s = <<>> THEN d
    ELSE Unmatched(Tail(s), open, close,
                   IF Head(s) = open THEN d + 1
                   ELSE IF Head(s) = close /\ d > 0 THEN d - 1 ELSE d)

\* A struct or a dictionary that is not closed.
Unclosed(s) == Unmatched(s, "(", ")", 0) > 0 \/ Unmatched(s, "{", "}", 0) > 0

Malformed(s) == ArrayWithoutElem(s) \/ Unclosed(s)

\* The texts of a list of nodes, one after the other.
RECURSIVE StringAll(_)
StringAll(sigs) ==
    IF sigs = <<>> THEN <<>> ELSE String(Head(sigs)) \o StringAll(Tail(sigs))

\* C14, the results: parseOneSignature never returns a node with an error; a
\* malformed signature makes it return an error unless the type it has parsed
\* is a well-formed front part of the text and the flaw is in the rest it
\* hands back ("a", "aa" and "(ii" have no such front part); parseSignature
\* returns an error and no list for every malformed signature, and otherwise
\* either an error or the nodes of the whole text.
C14_Results ==
    /\ sigOne # NoParse =>
         /\ sigOne.err # "nil" => sigOne.sig = NilSig
         /\ Malformed(sigText) =>
              \/ sigOne.err # "nil"
              \/ /\ String(sigOne.sig) \o sigOne.rest = sigText
                 /\ ~Malformed(String(sigOne.sig))
                 /\ Malformed(sigOne.rest)
         /\ sigText \in {<<"a">>, <<"a", "a">>, <<"(", "i", "i">>} =>
              sigOne.err # "nil"
    /\ sigPc = "done" =>
         /\ Malformed(sigText) => sigErr # "nil"
         /\ sigErr # "nil" => sigList = <<>>
         /\ sigErr = "nil" => (sigRest = <<>> /\ StringAll(sigList) = sigText)

\* C14, termination: every turn of parseSignature's loop that does not end
\* it leaves a shorter text to parse.
C14_Progress ==
    (sigPc = "loop" /\ sigPc' = "loop") => Len(sigRest') < Len(sigRest)

----------------------------------------------------------------------------
\* The wire format (marshall.go). A msgData is a record of its byte order,
\* its Data (a sequence of bytes) and its cursor Idx, with the panic raised on
\* it, if any. A Go string is [str |-> its bytes], a bool is a BOOLEAN, a
\* number is an integer, and an array, a struct or a dictionary entry is the
\* sequence of its members ([]interface{}).
\* Where a loop hands a result on to its next turn, the result is bound as
\* the member of a one-element set (CHOOSE out \in {F(r) : r \in {e}} : TRUE
\* is F(e)), so that it is evaluated once.

LittleEndian == "little"
BigEndian == "big"

msgData(order, data, idx) ==
    [Endianness |-> order, Data |-> data, Idx |-> idx, panic |-> "nil"]

Zeros(n) == [i \in 1..n |-> 0]

\* An alignment that rounds every offset up to a multiple of 4.
Round_Always4(msg, rnd) ==
    [msg EXCEPT !.Idx = (msg.Idx + 3) - ((msg.Idx + 3) % 4)]

\* marshall.go: msgData.Round: msg.Idx = ^bit & (msg.Idx + bit) for 2, 4, 8:
\* the low bits of Idx + bit are cleared.
Round(msg, rnd) ==
    IF rnd = 1 THEN msg
    ELSE IF rnd \in {2, 4, 8}
    THEN [msg EXCEPT !.Idx = (msg.Idx + (rnd - 1)) - ((msg.Idx + (rnd - 1)) % rnd)]
    ELSE [msg EXCEPT !.panic = "invalid Round argument"]

\* unnamed/part_003: _Align(length, index).
_Align(length, index) ==
    IF length = 1 THEN index
    ELSE IF length \in {2, 4, 8}
    THEN (index + (length - 1)) - ((index + (length - 1)) % length)
    ELSE -1

\* Go's msg.Data[:msg.Idx] on a buffer whose bytes past its length are zero.
DataTo(data, idx) ==
    IF idx <= Len(data) THEN SubSeq(data, 1, idx)
    ELSE data \o Zeros(idx - Len(data))

\* marshall.go: msgData.Put and PutString:
\* msg.Data = append(msg.Data[:msg.Idx], s...); msg.Idx += len(s).
Put(msg, s) ==
    [msg EXCEPT !.Data = DataTo(msg.Data, msg.Idx) \o s,
                !.Idx = msg.Idx + Len(s)]

\* marshall.go: msgData.Next: the n bytes at the cursor, or a panic with
\* errOutOfRange when the data ends before them.
NextOK(msg, n) == n <= Len(msg.Data) - msg.Idx
NextBytes(msg, n) == SubSeq(msg.Data, msg.Idx + 1, msg.Idx + n)
Next_(msg, n) ==
    IF NextOK(msg, n) THEN [msg EXCEPT !.Idx = msg.Idx + n]
    ELSE [msg EXCEPT !.panic = "index out of range"]

\* encoding/binary: ByteOrder.PutUint16, PutUint32, PutUint64 of v, and
\* Uint16, Uint32, Uint64 of bytes b. Floor division gives the bytes of the
\* two's complement for a negative v; the values of the model are below 2^31
\* in size, so that the bytes past the fourth are the sign's.
LEBytes(v, n) ==
    [i \in 1..n |-> IF i <= 4 THEN (v \div (256 ^ (i - 1))) % 256
                    ELSE IF v < 0 THEN 255 ELSE 0]
Reverse(b) == [i \in 1..Len(b) |-> b[Len(b) + 1 - i]]
PutUint(order, v, n) ==
    IF order = LittleEndian THEN LEBytes(v, n) ELSE Reverse(LEBytes(v, n))

\* The numbers read from the wire are kept below 2^30 in the model: every
\* number of 2^30 or more is read as Huge.
Huge == 2 ^ 30

RECURSIVE LEValue(_)
LEValue(b) == IF b = <<>> THEN 0 ELSE Head(b) + 256 * LEValue(Tail(b))
Uint(order, b) ==
    LET le == IF order = LittleEndian THEN b ELSE Reverse(b) IN
    IF \A i \in 1..Len(le) : (i = 4 => le[i] < 64) /\ (i > 4 => le[i] = 0)
    THEN LEValue(SubSeq(le, 1, IF Len(le) < 4 THEN Len(le) ELSE 4))
    ELSE Huge

\* marshall.go: appendArray up to "start := msg.Idx": the cursor is aligned
\* and four bytes are put for the length.
appendArrayStart(msg, align) == Put(Round(Round(msg, 4), align), Zeros(4))

\* marshall.go: appendArray after proc(msg): the length msg.Idx - start is
\* stored in msg.Data[start-4:start].
appendArrayEnd(msg, start) ==
    [msg EXCEPT !.Data =
        [i \in 1..Len(msg.Data) |->
            IF i \in (start - 3)..start
            THEN PutUint(msg.Endianness, msg.Idx - start, 4)[i - (start - 4)]
            ELSE msg.Data[i]]]

\* marshall.go: appendValue, returning the msgData and the error. The error
\* of a member's appendValue is dropped by the array, dictionary and struct
\* cases.
RECURSIVE appendValue(_, _, _)
appendValue(msg, sig, val) ==
    LET RECURSIVE elems(_, _), pairs(_, _), flds(_, _)
        elems(m, vals) ==
            IF vals = <<>> THEN m
            ELSE elems(appendValue(m, sig.elem, Head(vals)).msg, Tail(vals))
        pairs(m, vals) ==
            IF vals = <<>> THEN m
            ELSE LET k == appendValue(Round(m, 8), basicSig(sig.key),
                                      Head(vals)[1]).msg
                 IN pairs(appendValue(k, sig.value, Head(vals)[2]).msg,
                          Tail(vals))
        flds(m, i) ==
            IF i > Len(sig.fields) THEN m
            ELSE flds(appendValue(m, sig.fields[i], val[i]).msg, i + 1)
        open == appendArrayStart(msg, 1)
    IN CASE sig.kind = "array" ->
              [msg |-> appendArrayEnd(elems(open, val), open.Idx),
               err |-> "nil"]
         [] sig.kind = "dict" ->
              [msg |-> appendArrayEnd(pairs(open, val), open.Idx),
               err |-> "nil"]
         [] sig.kind = "struct" ->
              [msg |-> flds(Round(msg, 8), 1), err |-> "nil"]
         [] sig.kind = "basic" /\ sig.code = "y" ->
              [msg |-> Put(msg, <<val>>), err |-> "nil"]
         [] sig.kind = "basic" /\ sig.code = "s" ->
              [msg |-> Put(Put(Put(Round(msg, 4),
                                   PutUint(msg.Endianness, Len(val.str), 4)),
                               val.str), <<0>>),
               err |-> "nil"]
         [] sig.kind = "basic" /\ sig.code \in {"u", "i"} ->
              [msg |-> Put(Round(msg, 4), PutUint(msg.Endianness, val, 4)),
               err |-> "nil"]
         [] OTHER -> [msg |-> msg, err |-> "unsupported type"]

\* The byte of each character of a signature, and the character of a byte
\* ("?" for a byte that is no character of a signature).
CharByte ==
    [c \in BasicCodes \cup {"a", "(", ")", "{", "}"} |->
        CASE c = "y" -> 121 [] c = "b" -> 98 [] c = "n" -> 110 [] c = "q" -> 113
          [] c = "i" -> 105 [] c = "u" -> 117 [] c = "x" -> 120
          [] c = "t" -> 116 [] c = "d" -> 100 [] c = "s" -> 115
          [] c = "o" -> 111 [] c = "g" -> 103 [] c = "v" -> 118
          [] c = "a" -> 97 [] c = "(" -> 40 [] c = ")" -> 41
          [] c = "{" -> 123 [] c = "}" -> 125]
BytesOf(text) == [i \in 1..Len(text) |-> CharByte[text[i]]]
TextOf(bytes) ==
    [i \in 1..Len(bytes) |->
        IF \E c \in DOMAIN CharByte : CharByte[c] = bytes[i]
        THEN CHOOSE c \in DOMAIN CharByte : CharByte[c] = bytes[i]
        ELSE "?"]

\* marshall.go: parseSignature: parseOneSignature until the string is empty.
RECURSIVE parseSignature(_)
parseSignature(s) ==
    IF Len(s) = 0 THEN [sigs |-> <<>>, err |-> "nil"]
    ELSE LET r == parseOneSignature(s) IN
         IF r.err # "nil" THEN [sigs |-> <<>>, err |-> r.err]
         ELSE LET t == parseSignature(r.rest) IN
              IF t.err # "nil" THEN t
              ELSE [t EXCEPT !.sigs = <<r.sig>> \o t.sigs]

\* marshall.go: parseVariants, returning the slice, the msgData and the
\* error; a panic of msgData.Next ends it at once. The case 'v' is
\* _GetVariant: the byte at the cursor is the size of the signature, the
\* bytes after it the signature, and Parse decodes from the byte after the
\* signature's NUL in little-endian order; the cursor becomes the index Parse
\* returns (0 when the signature does not parse) and the values are appended
\* to the slice.
RECURSIVE parseVariants(_, _)
parseVariants(msg, sigs) ==
    LET sig == Head(sigs)
        Fail(m, e) == [slice |-> <<>>, msg |-> m, err |-> e]
        \* the rest of the loop over sigs, after sig gave value v at m
        Then(m, v) ==
            LET r == parseVariants(m, Tail(sigs)) IN
            IF r.err # "nil" THEN r
            ELSE [r EXCEPT !.slice = <<v>> \o r.slice]
        ThenAll(m, vals) ==
            LET r == parseVariants(m, Tail(sigs)) IN
            IF r.err # "nil" THEN r
            ELSE [r EXCEPT !.slice = vals \o r.slice]
        _GetVariant(sigSize) ==
            LET text == SubSeq(msg.Data, msg.Idx + 2, msg.Idx + 1 + sigSize)
                p == parseSignature(TextOf(text))
                r == parseVariants(msgData(LittleEndian, msg.Data,
                                           msg.Idx + 1 + sigSize + 1), p.sigs)
            IN IF p.err # "nil" THEN Fail([msg EXCEPT !.Idx = 0], p.err)
               ELSE IF r.err # "nil"
               THEN Fail([msg EXCEPT !.Idx = r.msg.Idx,
                                     !.panic = r.msg.panic], r.err)
               ELSE ThenAll([msg EXCEPT !.Idx = r.msg.Idx], r.slice)
        \* a length or a number of n bytes aligned on a bytes
        at(a) == Round(msg, a)
        Num(a, n) == Uint(msg.Endianness, NextBytes(at(a), n))
        RECURSIVE arr(_, _, _), dict(_, _, _)
        arr(m, end, acc) ==
            IF m.Idx < end
            THEN LET r == parseVariants(m, <<sig.elem>>) IN
                 IF r.err # "nil" THEN r
                 ELSE arr(r.msg, end, acc \o r.slice)
            ELSE [slice |-> acc, msg |-> m, err |-> "nil"]
        dict(m, end, acc) ==
            IF m.Idx < end
            THEN LET r == parseVariants(Round(m, 8),
                                        <<basicSig(sig.key), sig.value>>) IN
                 IF r.err # "nil" THEN r
                 ELSE dict(r.msg, end, Append(acc, r.slice))
            ELSE [slice |-> acc, msg |-> m, err |-> "nil"]
    IN IF sigs = <<>> THEN [slice |-> <<>>, msg |-> msg, err |-> "nil"]
       ELSE IF sig.kind \in {"array", "dict"}
       THEN IF ~NextOK(at(4), 4) THEN Fail(Next_(at(4), 4), "panic")
            ELSE LET m == Next_(at(4), 4)
                     r == IF sig.kind = "array"
                          THEN arr(m, m.Idx + Num(4, 4), <<>>)
                          ELSE dict(m, m.Idx + Num(4, 4), <<>>)
                 IN IF r.err # "nil" THEN r ELSE Then(r.msg, r.slice)
       ELSE IF sig.kind = "struct"
       THEN LET r == parseVariants(Round(msg, 8), sig.fields) IN
            IF r.err # "nil" THEN r ELSE Then(r.msg, r.slice)
       ELSE IF sig.code = "b"
       THEN IF ~NextOK(at(4), 4) THEN Fail(Next_(at(4), 4), "panic")
            ELSE Then(Next_(at(4), 4), Num(4, 4) # 0)
       ELSE IF sig.code = "y"
       THEN IF ~NextOK(msg, 1) THEN Fail(msg, "panic")
            ELSE Then(Next_(msg, 1), NextBytes(msg, 1)[1])
       ELSE IF sig.code = "n"
       THEN IF ~NextOK(at(2), 2) THEN Fail(Next_(at(2), 2), "panic")
            ELSE Then(Next_(at(2), 2),
                      IF Num(2, 2) >= 32768 THEN Num(2, 2) - 65536
                      ELSE Num(2, 2))
       ELSE IF sig.code = "q"
       THEN IF ~NextOK(at(2), 2) THEN Fail(Next_(at(2), 2), "panic")
            ELSE Then(Next_(at(2), 2), Num(2, 2))
       ELSE IF sig.code = "u"
       THEN IF ~NextOK(at(4), 4) THEN Fail(Next_(at(4), 4), "panic")
            ELSE Then(Next_(at(4), 4), Num(4, 4))
       ELSE IF sig.code \in {"s", "o"}
       THEN IF ~NextOK(at(4), 4) THEN Fail(Next_(at(4), 4), "panic")
            ELSE LET m == Next_(at(4), 4)
                     l == Num(4, 4)
                 IN IF ~NextOK(m, l + 1) THEN Fail(Next_(m, l + 1), "panic")
                    ELSE Then(Next_(m, l + 1), [str |-> NextBytes(m, l)])
       ELSE IF sig.code = "g"
       THEN IF ~NextOK(msg, 1) THEN Fail(msg, "panic")
            ELSE LET m == Next_(msg, 1)
                     l == NextBytes(msg, 1)[1]
                 IN IF ~NextOK(m, l + 1) THEN Fail(Next_(m, l + 1), "panic")
                    ELSE Then(Next_(m, l + 1), [str |-> NextBytes(m, l)])
       ELSE IF sig.code = "v"
       THEN IF ~NextOK(msg, 1) THEN Fail(Next_(msg, 1), "panic")
            ELSE IF ~NextOK(msg, 1 + NextBytes(msg, 1)[1])
            THEN Fail(Next_(msg, 1 + NextBytes(msg, 1)[1]), "panic")
            ELSE _GetVariant(NextBytes(msg, 1)[1])
       ELSE Fail(msg, "unknown type")

\* marshall.go: Parse, for the parsed signature sigs: the byte order is
\* always binary.LittleEndian.
Parse(buff, sigs, index) ==
    parseVariants(msgData(LittleEndian, buff, index), sigs)

\* marshall.go: the width in bytes of the fixed-size basic types, as written
\* by putValue and read by scanValue.
FixedWidth ==
    [y |-> 1, b |-> 4, n |-> 2, q |-> 2, i |-> 4, u |-> 4,
     x |-> 8, t |-> 8, d |-> 8]

\* marshall.go: the argument of msg.Round in each basic case of putValue.
putValueRound ==
    [y |-> 1, b |-> 4, n |-> 2, q |-> 2, i |-> 4, u |-> 4,
     x |-> 8, t |-> 8, d |-> 8, s |-> 4, o |-> 4, g |-> 1]

\* marshall.go: the argument of msg.Round in each basic case of scanValue.
scanValueRound ==
    [y |-> 1, b |-> 4, n |-> 2, q |-> 2, i |-> 4, u |-> 4,
     x |-> 8, t |-> 4, d |-> 8, s |-> 4, o |-> 4, g |-> 1]

\* marshall.go: putValue, returning the msgData and the error. After the
\* array and the struct case the second switch asserts sig.(basicSig), whose
\* panic catchPanicErr turns into the error returned; the error of a member's
\* putValue is dropped; the panics with a string are not recovered.
RECURSIVE putValue(_, _, _)
putValue(msg, sig, val) ==
    LET RECURSIVE elems(_, _), flds(_, _)
        elems(m, vals) ==
            IF vals = <<>> THEN m
            ELSE elems(putValue(m, sig.elem, Head(vals)).msg, Tail(vals))
        flds(m, i) ==
            IF i > Len(sig.fields) THEN m
            ELSE flds(putValue(m, sig.fields[i], val[i]).msg, i + 1)
        open == Put(Round(msg, 4), Zeros(4))
        at == Round(msg, putValueRound[sig.code])
    IN CASE sig.kind = "array" ->
              [msg |-> appendArrayEnd(elems(open, val), open.Idx),
               err |-> "interface conversion"]
         [] sig.kind = "struct" ->
              [msg |-> flds(Round(msg, 8), 1), err |-> "interface conversion"]
         [] sig.kind = "dict" ->
              [msg |-> [msg EXCEPT !.panic = "dictionaries are unsupported"],
               err |-> "nil"]
         [] sig.kind = "basic" /\ sig.code = "b" ->
              [msg |-> Put(at, <<IF val THEN 1 ELSE 0, 0, 0, 0>>),
               err |-> "nil"]
         [] sig.kind = "basic" /\ sig.code \in DOMAIN FixedWidth \ {"b"} ->
              [msg |-> Put(at, PutUint(msg.Endianness, val,
                                       FixedWidth[sig.code])),
               err |-> "nil"]
         [] sig.kind = "basic" /\ sig.code \in {"s", "o"} ->
              [msg |-> Put(Put(Put(at, PutUint(msg.Endianness,
                                               Len(val.str), 4)),
                               val.str), <<0>>),
               err |-> "nil"]
         [] sig.kind = "basic" /\ sig.code = "g" ->
              [msg |-> Put(Put(Put(at, <<Len(val.str)>>), val.str), <<0>>),
               err |-> "nil"]
         [] OTHER -> [msg |-> [msg EXCEPT !.panic = "unsupported"],
                      err |-> "nil"]

\* A signed value of n bytes stored by reflect's SetInt in a field of that
\* width.
Signed(v, n) == IF n < 4 /\ v >= 2 ^ (8 * n - 1) THEN v - 2 ^ (8 * n) ELSE v

\* marshall.go: scanValue, returning the value, the msgData and the error.
\* The panic of msgData.Next is recovered by the scanValue it happens in and
\* becomes that call's error; the array and the struct case drop the error
\* of a member's scanValue, and end, like putValue, in the error of the
\* failed assertion sig.(basicSig). An array whose member cannot be read
\* never moves the cursor to the array's end: the loop does not end.
RECURSIVE scanValue(_, _)
scanValue(msg, sig) ==
    LET Fail(m, e) == [val |-> 0, msg |-> m, err |-> e]
        RECURSIVE arr(_, _, _), flds(_, _, _)
        arr(m, end, acc) ==
            IF m.Idx < end
            THEN LET r == scanValue(m, sig.elem) IN
                 IF r.msg.Idx = m.Idx
                 THEN [val |-> acc, msg |-> m, err |-> "loops forever"]
                 ELSE arr(r.msg, end, Append(acc, r.val))
            ELSE [val |-> acc, msg |-> m, err |-> "interface conversion"]
        flds(m, i, acc) ==
            IF i > Len(sig.fields)
            THEN [val |-> acc, msg |-> m, err |-> "interface conversion"]
            ELSE LET rest(r) == flds(r.msg, i + 1, Append(acc, r.val)) IN
                 CHOOSE out \in {rest(r) : r \in {scanValue(m, sig.fields[i])}} :
                     TRUE
        at == Round(msg, scanValueRound[sig.code])
        w == FixedWidth[sig.code]
    IN IF sig.kind = "array"
       THEN IF ~NextOK(Round(msg, 4), 4)
            THEN Fail(Round(msg, 4), "index out of range")
            ELSE LET m == Next_(Round(msg, 4), 4) IN
                 arr(m, m.Idx + Uint(msg.Endianness,
                                     NextBytes(Round(msg, 4), 4)), <<>>)
       ELSE IF sig.kind = "struct" THEN flds(Round(msg, 8), 1, <<>>)
       ELSE IF sig.kind = "dict"
       THEN Fail([msg EXCEPT !.panic = "unsupported dictionaries"], "nil")
       ELSE IF sig.code \in DOMAIN FixedWidth
       THEN IF ~NextOK(at, w) THEN Fail(at, "index out of range")
            ELSE LET x == Uint(msg.Endianness, NextBytes(at, w)) IN
                 [val |-> CASE sig.code = "b" -> x # 0
                            [] sig.code \in {"n", "i", "x"} -> Signed(x, w)
                            [] OTHER -> x,
                  msg |-> Next_(at, w), err |-> "nil"]
       ELSE IF sig.code \in {"s", "o", "g"}
       THEN LET n == IF sig.code = "g" THEN 1 ELSE 4 IN
            IF ~NextOK(at, n) THEN Fail(at, "index out of range")
            ELSE LET m == Next_(at, n)
                     l == Uint(msg.Endianness, NextBytes(at, n))
                 IN IF ~NextOK(m, l + 1) THEN Fail(m, "index out of range")
                    ELSE [val |-> [str |-> NextBytes(m, l)],
                          msg |-> Next_(m, l + 1), err |-> "nil"]
       ELSE Fail([msg EXCEPT !.panic = "unsupported"], "nil")

----------------------------------------------------------------------------
\* Values given to the encoders and the decoders.

\* Largest number of members of an array or a dictionary.
MaxElems == 2
\* Largest offset at which a value is encoded.
MaxStart == 7

Str(bytes) == [str |-> bytes]

\* Sample values of each basic type; 64-bit values and doubles (the latter
\* named by their bits) are below 2^31.
BasicValues ==
    [y |-> {200}, b |-> {FALSE, TRUE}, n |-> {-2, 258}, q |-> {258},
     i |-> {70000}, u |-> {1, 258}, x |-> {258}, t |-> {258}, d |-> {258},
     s |-> {Str(<<>>), Str(<<116, 49>>)}, o |-> {Str(<<47>>)},
     g |-> {Str(<<105>>)}]

ValCodes == DOMAIN BasicValues

\* The signatures of the values: every basic code, and arrays, structs and a
\* dictionary of them.
ValSigs ==
    {basicSig(c) : c \in ValCodes}
      \cup {arraySig(basicSig(c)) : c \in {"y", "s", "u", "b", "q", "x"}}
      \cup {structSig(<<basicSig("s"), basicSig("u")>>),
            structSig(<<basicSig("y"), basicSig("x")>>),
            arraySig(structSig(<<basicSig("s"), basicSig("u")>>)),
            arraySig(structSig(<<basicSig("y"), basicSig("y")>>)),
            arraySig(arraySig(basicSig("y"))),
            dictSig("s", basicSig("u"))}

\* The sequences of at most n members of S.
SeqsUpTo(S, n) == UNION {[1..k -> S] : k \in 0..n}

\* The well-typed values of a signature node.
RECURSIVE Values(_)
Values(sig) ==
    LET RECURSIVE Tuples(_)
        Tuples(sigs) ==
            IF sigs = <<>> THEN {<<>>}
            ELSE {<<v>> \o w : v \in Values(Head(sigs)), w \in Tuples(Tail(sigs))}
    IN CASE sig.kind = "basic" -> BasicValues[sig.code]
         [] sig.kind = "array" -> SeqsUpTo(Values(sig.elem), MaxElems)
         [] sig.kind = "struct" -> Tuples(sig.fields)
         [] sig.kind = "dict" ->
              SeqsUpTo(Tuples(<<basicSig(sig.key), sig.value>>), MaxElems)

\* marshall_test.go: TestAppendValue: the three pairs test1/1, test2/2,
\* test3/3 of signature a(su).
TestPairs ==
    <<<<Str(<<116, 101, 115, 116, 49>>), 1>>,
      <<Str(<<116, 101, 115, 116, 50>>), 2>>,
      <<Str(<<116, 101, 115, 116, 51>>), 3>>>>

\* The variants a peer can send: a signature of zero, one or two basic types
\* and a value of each.
VariantCodes == {"y", "u", "s"}
Variant(codes, vals) ==
    [sigs |-> [i \in 1..Len(codes) |-> basicSig(codes[i])], vals |-> vals]
IsVariant(val) ==
    \/ val = Variant(<<>>, <<>>)
    \/ \E c \in VariantCodes : \E v \in BasicValues[c] :
           val = Variant(<<c>>, <<v>>)
    \/ \E c \in VariantCodes, d \in VariantCodes :
           \E v \in BasicValues[c], w \in BasicValues[d] :
               val = Variant(<<c, d>>, <<v, w>>)

\* The bytes already in the buffer when the value is encoded at offset n.
Prefix(n) == [i \in 1..n |-> 255]

\* Largest number of bytes missing at the end of a buffer.
MaxCut == 12

\* Boolean wire values a peer can send.
WireBools == {0, 1, 2, 256}

\* What the encoders and decoders leave alone.
valOthers == <<connVars, sigVars>>

\* A caller has a value of some signature to encode at some offset.
ValInit ==
    /\ ConnIdle
    /\ SigIdle
    /\ \/ /\ valSig \in ValSigs
          /\ valVal \in Values(valSig)
          /\ valStart \in 0..MaxStart
       \/ /\ valSig = arraySig(structSig(<<basicSig("s"), basicSig("u")>>))
          /\ valVal = TestPairs
          /\ valStart = 0
       \/ /\ valSig = basicSig("v")
          /\ IsVariant(valVal)
          /\ valStart \in 0..MaxStart
    /\ valPc = "input"
    /\ valEnc = "none"
    /\ valMsg = NoMsg
    /\ valErr = "nil"
    /\ valDec = "none"
    /\ valOut = NoOut
    /\ valHdr = NoHdr

Encoded(by, r) ==
    /\ valPc = "input"
    /\ valPc' = "encoded"
    /\ valEnc' = by
    /\ valMsg' = r.msg
    /\ valErr' = r.err
    /\ UNCHANGED <<valSig, valStart, valDec, valOut, valHdr>>
    /\ UNCHANGED valOthers

\* marshall.go: appendValue(msg, sig, val) on a little-endian msgData whose
\* cursor is at the end of its data.
AppendValue ==
    /\ Encoded("appendValue",
               appendValue(msgData(LittleEndian, Prefix(valStart), valStart),
                           valSig, valVal))
    /\ UNCHANGED valVal

\* marshall.go: msg.putValue(sig, val), likewise.
PutValue ==
    /\ Encoded("putValue",
               putValue(msgData(LittleEndian, Prefix(valStart), valStart),
                        valSig, valVal))
    /\ UNCHANGED valVal

\* The bytes come from a peer instead: a boolean with wire value x at the
\* first offset from valStart that is a multiple of 4; valVal records x.
Received(x) ==
    /\ valSig = basicSig("b")
    /\ Encoded("wire",
               [msg |-> Put(Round(msgData(LittleEndian, Prefix(valStart),
                                          valStart), 4),
                            PutUint(LittleEndian, x, 4)),
                err |-> "nil"])
    /\ valVal' = x

\* The bytes of a variant come from a peer: the signature with its size and
\* its NUL, then each value at its alignment, in little-endian order.
VariantBytes(msg, v) ==
    LET RECURSIVE values(_, _)
        values(m, i) ==
            IF i > Len(v.sigs) THEN m
            ELSE values(putValue(m, v.sigs[i], v.vals[i]).msg, i + 1)
        text == BytesOf(StringAll(v.sigs))
    IN values(Put(msg, <<Len(text)>> \o text \o <<0>>), 1)

VariantArrives ==
    /\ valSig = basicSig("v")
    /\ Encoded("variant",
               [msg |-> VariantBytes(msgData(LittleEndian, Prefix(valStart),
                                             valStart), valVal),
                err |-> "nil"])
    /\ UNCHANGED valVal

Decoded(by, vals, m, err) ==
    /\ valPc = "encoded"
    /\ valPc' = "decoded"
    /\ valDec' = by
    /\ valOut' = [vals |-> vals, Idx |-> m.Idx, err |-> err,
                  panic |-> m.panic]
    /\ UNCHANGED <<valSig, valVal, valStart, valEnc, valMsg, valErr, valHdr>>
    /\ UNCHANGED valOthers

\* marshall.go: Parse(buff, sig, index) on the bytes, from the offset the
\* value was encoded at.
ParseVariants ==
    LET r == Parse(valMsg.Data, <<valSig>>, valStart) IN
    Decoded("parseVariants", r.slice, r.msg, r.err)

\* marshall.go: msg.scanValue(sig, val), likewise.
ScanValue ==
    LET r == scanValue(msgData(LittleEndian, valMsg.Data, valStart), valSig)
    IN Decoded("scanValue", <<r.val>>, r.msg, r.err)

----------------------------------------------------------------------------
\* Frames (message.go, dbus.go, marshall.go). A frame is the sequence of
\* bytes of one message: the fixed header (yyyyuu), the array of header
\* fields, zeros up to a multiple of 8, and the body.

\* marshall.go: Parse with the signature as a string: the signature is
\* parsed, and parseVariants reads buff in little-endian order.
ParseString(buff, sig, index) ==
    LET p == parseSignature(TextOf(sig)) IN
    IF p.err # "nil"
    THEN [slice |-> <<>>, msg |-> msgData(LittleEndian, buff, index),
          err |-> p.err]
    ELSE Parse(buff, p.sigs, index)

\* marshall.go: hdrSigs and fldSigs ("osssussgu": Path, Interface, Member,
\* ErrorName, ReplySerial, Destination, Sender, Signature, NumFD).
hdrSigs ==
    structSig(<<basicSig("y"), basicSig("y"), basicSig("y"), basicSig("y"),
                basicSig("u"), basicSig("u")>>)
fldSigs ==
    <<basicSig("o"), basicSig("s"), basicSig("s"), basicSig("s"),
      basicSig("u"), basicSig("s"), basicSig("s"), basicSig("g"),
      basicSig("u")>>

\* marshall.go: msgHeaderFields with every field at its zero value.
NoFlds ==
    <<Str(<<>>), Str(<<>>), Str(<<>>), Str(<<>>), 0, Str(<<>>), Str(<<>>),
      Str(<<>>), 0>>

\* marshall.go: msgData.putHeader(hdr, flds): the header, four bytes for the
\* length of the fields, each field that is not the zero value of its type
\* at a multiple of 8 as its number, the signature of its type and its
\* value; then the length of the fields is stored.
putHeader(msg, hdr, flds) ==
    LET RECURSIVE fields(_, _)
        fields(m, i) ==
            IF i > 9 THEN m
            ELSE IF i \notin DOMAIN flds \/ flds[i] = NoFlds[i]
            THEN fields(m, i + 1)
            ELSE LET id == Put(Round(m, 8), <<i>>)
                     g == putValue(id, basicSig("g"),
                                   Str(BytesOf(String(fldSigs[i])))).msg
                 IN CHOOSE out \in
                        {fields(r, i + 1) :
                            r \in {putValue(g, fldSigs[i], flds[i]).msg}} :
                        TRUE
        open == Put(putValue(msg, hdrSigs, hdr).msg, Zeros(4))
    IN appendArrayEnd(fields(open, 1), open.Idx)

\* The byte of the endianness tag of each order: 'l' and 'B'.
Tag(order) == IF order = LittleEndian THEN 108 ELSE 66

\* message.go: _Marshal, with the byte order of the frame as a parameter
\* (_Marshal itself writes little-endian frames only; a peer writes either):
\* putHeader, the body on a msgData of its own, its length stored in
\* msg.Data[4:8], msg.Round(8) and msg.Put(submsg.Data). The message is a
\* signal with a member, a reply serial when rs is not 0, and one parameter.
FrameOf(order, ser, rs, sig, val) ==
    LET hdr == <<Tag(order), 4, 0, 1, 0, ser>>
        flds == (3 :> Str(<<116, 49>>)) @@ (5 :> rs)
                  @@ (8 :> Str(BytesOf(String(sig))))
        frame(h, submsg) ==
            LET sized == [h EXCEPT !.Data =
                             [i \in 1..Len(h.Data) |->
                                 IF i \in 5..8
                                 THEN PutUint(order, Len(submsg.Data), 4)[i - 4]
                                 ELSE h.Data[i]]]
            IN Put(Round(sized, 8), submsg.Data).Data
    IN CHOOSE out \in
           {frame(h, submsg) :
               h \in {putHeader(msgData(order, <<>>, 0), hdr, flds)},
               submsg \in {putValue(msgData(order, <<>>, 0), sig, val).msg}} :
           TRUE

\* marshall.go: msgData.scanHeader, returning hdr, flds, the msgData and the
\* error. The error of msg.scan is dropped; a field whose signature does not
\* parse, or is not the one of its number, or whose value cannot be read,
\* stays as it was; a panic of msg.Next in scanHeader itself is the error
\* returned. The fields followed are those of fldSigs above. The target of
\* a field is fldVal.Field(int(b)-1), computed before msg.scan is called:
\* for b = 0 reflect panics with a string, which catchPanicErr panics again.
scanHeader(msg) ==
    LET h == scanValue(msg, hdrSigs)
        m4 == Round(h.msg, 4)
        Ret(f, m, e) == [hdr |-> h.val, flds |-> f, msg |-> m, err |-> e]
        RECURSIVE fields(_, _, _)
        fields(m, fldEnd, f) ==
            IF m.Idx < fldEnd
            THEN LET m8 == Round(m, 8) IN
                 IF ~NextOK(m8, 1) THEN Ret(f, m8, "index out of range")
                 ELSE LET b == NextBytes(m8, 1)[1]
                          field(g) ==
                              LET fldSig == IF g.err = "nil" THEN g.val.str
                                            ELSE <<>>
                                  p == parseOneSignature(TextOf(fldSig))
                                  scans == p.rest = <<>> /\ p.err = "nil"
                                  v == scanValue(g.msg, p.sig)
                              IN IF b = 0
                                 THEN Ret(f, [g.msg EXCEPT !.panic =
                                          "reflect: Field index out of range"],
                                          "nil")
                                 ELSE IF ~scans THEN fields(g.msg, fldEnd, f)
                                 ELSE IF v.msg.panic # "nil"
                                 THEN Ret(f, v.msg, "nil")
                                 ELSE fields(v.msg, fldEnd,
                                             IF /\ b \in DOMAIN fldSigs
                                                /\ p.sig = fldSigs[b]
                                                /\ v.err = "nil"
                                             THEN [f EXCEPT ![b] = v.val]
                                             ELSE f)
                      IN IF b > 9 THEN Ret(f, Next_(m8, 1),
                                           "invalid header field ID")
                         ELSE CHOOSE out \in
                                  {field(g) : g \in {scanValue(Next_(m8, 1),
                                                               basicSig("g"))}} :
                                  TRUE
            ELSE Ret(f, m, "nil")
    IN IF ~NextOK(m4, 4) THEN Ret(NoFlds, m4, "index out of range")
       ELSE fields(Next_(m4, 4),
                   m4.Idx + 4 + Uint(msg.Endianness, NextBytes(m4, 4)),
                   NoFlds)

\* The byte order of a frame, from its first byte; popMessage lets only 'l'
\* and 'B' through.
OrderOf(data) == IF data[1] = Tag(LittleEndian) THEN LittleEndian ELSE BigEndian

\* message.go: unmarshal: newRawMessage (the header and the fields are
\* scanned in the order of the tag; raw is the data after the fields,
\* from a multiple of 8), then parseParams (Parse of raw with the signature
\* field when bodyLength > 0).
unmarshal(buff) ==
    LET parseParams(r, raw) ==
            LET p == IF r.hdr[5] > 0 THEN ParseString(raw, r.flds[8].str, 0)
                     ELSE [slice |-> <<>>, err |-> "nil"]
            IN [Type |-> r.hdr[2], Flags |-> r.hdr[3], Protocol |-> r.hdr[4],
                bodyLength |-> r.hdr[5], serial |-> r.hdr[6],
                Path |-> r.flds[1], Iface |-> r.flds[2],
                Member |-> r.flds[3], ErrorName |-> r.flds[4],
                replySerial |-> r.flds[5], Dest |-> r.flds[6],
                Sig |-> r.flds[8], Params |-> p.slice, err |-> p.err,
                panic |-> "nil"]
        newRawMessage(r) ==
            IF r.err # "nil" \/ r.msg.panic # "nil"
            THEN [err |-> r.err, panic |-> r.msg.panic]
            ELSE CHOOSE out \in
                     {parseParams(r, raw) :
                         raw \in {SubSeq(buff, Round(r.msg, 8).Idx + 1,
                                         Len(buff))}} : TRUE
    IN CHOOSE out \in
           {newRawMessage(r) :
               r \in {scanHeader(msgData(OrderOf(buff), buff, 0))}} : TRUE

\* Unsigned 32-bit numbers as their four bytes, lowest first: the sum
\* modulo 2^32, and Go's (n + 7) &^ 7.
Add32(a, b) ==
    LET c1 == a[1] + b[1]
        c2 == a[2] + b[2] + (c1 \div 256)
        c3 == a[3] + b[3] + (c2 \div 256)
        c4 == a[4] + b[4] + (c3 \div 256)
    IN <<c1 % 256, c2 % 256, c3 % 256, c4 % 256>>
Pad8(n) ==
    LET sum == Add32(n, <<7, 0, 0, 0>>) IN [sum EXCEPT ![1] = sum[1] - (sum[1] % 8)]

\* dbus.go: popMessage on the bytes r left in a stream that has ended,
\* returning the size computed, the reply serial, the error and the number
\* of bytes taken off the stream. Peek(16) fails with the stream's EOF and
\* takes nothing; the sizes of the body and of the fields are read in the
\* order of the tag and added as uint32; io.ReadFull takes what there is
\* and fails when it is less than the size; the reply serial is the one
\* scanHeader finds, its error being dropped and its panic leaving
\* popMessage.
popMessage(r) ==
    LET order == OrderOf(r)
        le(b) == IF order = LittleEndian THEN b ELSE Reverse(b)
        bodySize == le(SubSeq(r, 5, 8))
        fldSize == Pad8(le(SubSeq(r, 13, 16)))
        size == Uint(LittleEndian,
                     Add32(Add32(<<16, 0, 0, 0>>, fldSize), bodySize))
        Ret(n, rs, e, t) ==
            [size |-> n, ReplySerial |-> rs, err |-> e, taken |-> t]
        found(h) == IF h.msg.panic # "nil"
                    THEN Ret(size, 0, "panic", size)
                    ELSE Ret(size, h.flds[5], "nil", size)
    IN IF Len(r) < 16 THEN Ret(0, 0, "EOF", 0)
       ELSE IF r[1] \notin {Tag(LittleEndian), Tag(BigEndian)}
       THEN Ret(0, 0, "malformed endianness", 0)
       ELSE IF size > Len(r) THEN Ret(size, 0, "incomplete message", Len(r))
       ELSE CHOOSE out \in
                {found(h) :
                    h \in {scanHeader(msgData(order, SubSeq(r, 1, size), 0))}} :
                TRUE

\* The serials and the reply serials of the frames.
FrameSerials == {1, 258}
FrameReplies == {0, 258}

\* The signatures of the bodies of the frames: those for which putValue
\* writes the wire format (no padding after an array's length).
FrameSigs ==
    {s \in ValSigs : \/ s.kind = "basic"
                     \/ s.kind = "struct"
                     \/ (s.kind = "array" /\ s.elem.kind = "basic"
                           /\ s.elem.code \in {"y", "s", "u", "b", "q"})}

\* A peer sends the message made of the value as one frame, in either byte
\* order.
FrameArrives(order, ser, rs) ==
    /\ valPc = "input"
    /\ valStart = 0
    /\ valSig \in FrameSigs
    /\ valPc' = "framed"
    /\ valEnc' = "peer"
    /\ valHdr' = [Serial |-> ser, ReplySerial |-> rs]
    /\ valMsg' = msgData(order, FrameOf(order, ser, rs, valSig, valVal), 0)
    /\ UNCHANGED <<valSig, valVal, valStart, valErr, valDec, valOut>>
    /\ UNCHANGED valOthers

\* What the connection makes of a frame: popMessage takes it off the stream
\* and unmarshal decodes it.
Unmarshalled(frame) == [pop |-> popMessage(frame), msg |-> unmarshal(frame)]

\* dbus.go, message.go: the frame is read and unmarshalled.
Unmarshal ==
    /\ valPc = "framed"
    /\ valPc' = "unmarshalled"
    /\ valDec' = "unmarshal"
    /\ valOut' = Unmarshalled(valMsg.Data)
    /\ UNCHANGED <<valSig, valVal, valStart, valEnc, valMsg, valErr, valHdr>>
    /\ UNCHANGED valOthers

\* What a peer may do to a frame it sends: give its first header field the
\* number 0 or 10, give it a tag that is no byte order, give it sizes whose
\* sum with 16 is 2^32, or end the stream inside its header or its body.
Damages ==
    {"none", "field 0", "field 10", "tag", "sizes", "short header",
     "short body"}
Cuts == {"sizes", "short header", "short body"}
Damaged(frame, order, dmg) ==
    CASE dmg = "none" -> frame
      [] dmg = "field 0" -> [frame EXCEPT ![17] = 0]
      [] dmg = "field 10" -> [frame EXCEPT ![17] = 10]
      [] dmg = "tag" -> [frame EXCEPT ![1] = 0]
      [] dmg = "sizes" ->
           [i \in 1..Len(frame) |->
               IF i \in 5..8
               THEN (IF order = LittleEndian THEN <<240, 255, 255, 255>>
                     ELSE <<255, 255, 255, 240>>)[i - 4]
               ELSE IF i \in 13..16 THEN 0 ELSE frame[i]]
      [] dmg = "short header" -> SubSeq(frame, 1, 10)
      [] dmg = "short body" -> SubSeq(frame, 1, Len(frame) - 1)

\* The frame that follows on the stream: a message with the reply serial
\* 258 and one byte as its body.
NextFrame == FrameOf(LittleEndian, 1, 258, basicSig("y"), 200)

\* The most frames the reader takes off one stream.
MaxPops == 3

\* A peer sends the message made of the value as a frame, damaged or not,
\* then another frame or nothing, and closes the stream. valHdr keeps what
\* was sent: the complete frames and whether the stream ends inside one.
StreamArrives(order, rs, dmg, more) ==
    /\ valPc = "input"
    /\ valStart = 0
    /\ valSig \in FrameSigs
    /\ valSig.kind = "basic"
    /\ dmg \in Cuts => ~more
    /\ \E frame \in {FrameOf(order, 1, rs, valSig, valVal)} :
       \E first \in {Damaged(frame, order, dmg)} :
       LET sent == IF dmg \in Cuts THEN <<>>
                   ELSE <<[at |-> 0, size |-> Len(first)]>>
       IN /\ valMsg' = msgData(order,
                               first \o (IF more THEN NextFrame ELSE <<>>), 0)
          /\ valHdr' = [Serial |-> 1, ReplySerial |-> rs, dmg |-> dmg,
                        first |-> Len(first),
                        frames |-> IF more
                                   THEN Append(sent, [at |-> Len(first),
                                                      size |-> Len(NextFrame)])
                                   ELSE sent]
    /\ valPc' = "stream"
    /\ valEnc' = "stream"
    /\ valOut' = [err |-> "nil", frames |-> <<>>]
    /\ UNCHANGED <<valSig, valVal, valStart, valErr, valDec>>
    /\ UNCHANGED valOthers

\* dbus.go: one turn of the loop of handleReplies: popMessage on what is
\* left of the stream (valMsg.Idx bytes are taken already); its error ends
\* the loop, and otherwise the frame goes to dispatch with its reply serial.
HandleReplies ==
    /\ valPc = "stream"
    /\ valDec # "scanHeader"
    /\ Len(valOut.frames) < MaxPops
    /\ \E r \in {popMessage(SubSeq(valMsg.Data, valMsg.Idx + 1,
                                     Len(valMsg.Data)))} :
          /\ valMsg' = [valMsg EXCEPT !.Idx = @ + r.taken]
          /\ valPc' = IF r.err # "nil" THEN "closed" ELSE "stream"
          /\ valOut' = IF r.err # "nil" THEN [valOut EXCEPT !.err = r.err]
                       ELSE [valOut EXCEPT !.frames =
                                Append(@, [at |-> valMsg.Idx, size |-> r.size,
                                           replyTo |-> r.ReplySerial])]
    /\ valDec' = "popMessage"
    /\ UNCHANGED <<valSig, valVal, valStart, valEnc, valErr, valHdr>>
    /\ UNCHANGED valOthers

\* marshall.go: msg.scanHeader() on the frame at the head of the stream, as
\* newRawMessage and popMessage call it.
ScanHeader ==
    /\ valPc = "stream"
    /\ valDec = "none"
    /\ valHdr.dmg \notin Cuts \cup {"tag"}
    /\ \E h \in {scanHeader(msgData(OrderOf(valMsg.Data),
                                      SubSeq(valMsg.Data, 1, valHdr.first),
                                      0))} :
          valOut' = [err |-> h.err, panic |-> h.msg.panic, flds |-> h.flds,
                     frames |-> <<>>]
    /\ valPc' = "scanned"
    /\ valDec' = "scanHeader"
    /\ UNCHANGED <<valSig, valVal, valStart, valEnc, valMsg, valErr, valHdr>>
    /\ UNCHANGED valOthers

\* marshall.go: appendParamsData(msg, sig, params), returning the msgData;
\* the error of parseSignature or of appendValue is the value of a panic.
appendParamsData(msg, sig, params) ==
    LET p == parseSignature(TextOf(sig.str))
        RECURSIVE each(_, _)
        each(m, i) ==
            IF i > Len(p.sigs) THEN m
            ELSE LET rest(r) ==
                         IF r.err # "nil" THEN [r.msg EXCEPT !.panic = r.err]
                         ELSE each(r.msg, i + 1)
                 IN CHOOSE out \in
                        {rest(r) : r \in {appendValue(m, p.sigs[i], params[i])}} :
                        TRUE
    IN IF p.err # "nil" THEN [msg EXCEPT !.panic = p.err] ELSE each(msg, 1)

\* message.go: Message._Marshal, returning the msgData whose Data is the
\* frame: putHeader in little-endian order, the parameters on a msgData of
\* their own, their length stored in msg.Data[4:8], msg.Round(8) and
\* msg.Put(submsg.Data). A panic of appendParamsData leaves _Marshal.
_Marshal(m) ==
    LET hdr == <<Tag(LittleEndian), m.Type, m.Flags, m.Protocol, 0, m.serial>>
        flds == <<m.Path, m.Iface, m.Member, m.ErrorName, m.replySerial,
                  m.Dest, NoFlds[7], m.Sig, NoFlds[9]>>
        frame(h, submsg) ==
            LET sized == [h EXCEPT !.Data =
                             [i \in 1..Len(h.Data) |->
                                 IF i \in 5..8
                                 THEN PutUint(LittleEndian, Len(submsg.Data),
                                              4)[i - 4]
                                 ELSE h.Data[i]]]
            IN IF submsg.panic # "nil" THEN submsg
               ELSE Put(Round(sized, 8), submsg.Data)
    IN CHOOSE out \in
           {frame(h, submsg) :
               h \in {putHeader(msgData(LittleEndian, <<>>, 0), hdr, flds)},
               submsg \in {appendParamsData(msgData(LittleEndian, <<>>, 0),
                                            m.Sig, m.Params)}} : TRUE

\* The outbound messages: a method call, a method return, an error and a
\* signal, each with the header fields of its type.
Outbound ==
    [call |-> [Type |-> 1, Path |-> Str(<<47>>), Iface |-> Str(<<116, 49>>),
               Member |-> Str(<<116, 49, 50>>), ErrorName |-> Str(<<>>),
               replySerial |-> 0, Dest |-> Str(<<116>>)],
     return |-> [Type |-> 2, Path |-> Str(<<>>), Iface |-> Str(<<>>),
                 Member |-> Str(<<>>), ErrorName |-> Str(<<>>),
                 replySerial |-> 258, Dest |-> Str(<<116>>)],
     error |-> [Type |-> 3, Path |-> Str(<<>>), Iface |-> Str(<<>>),
                Member |-> Str(<<>>), ErrorName |-> Str(<<116, 49>>),
                replySerial |-> 258, Dest |-> Str(<<>>)],
     signal |-> [Type |-> 4, Path |-> Str(<<47>>), Iface |-> Str(<<116, 49>>),
                 Member |-> Str(<<116>>), ErrorName |-> Str(<<>>),
                 replySerial |-> 0, Dest |-> Str(<<>>)]]

\* message.go: NewMessage and the caller's fields: Flags 0, Protocol 1, the
\* serial, and the value as the only parameter, or no parameter.
OutMessage(kind, ser, body) ==
    [Type |-> Outbound[kind].Type, Flags |-> 0, Protocol |-> 1,
     serial |-> ser, replySerial |-> Outbound[kind].replySerial,
     Path |-> Outbound[kind].Path, Iface |-> Outbound[kind].Iface,
     Member |-> Outbound[kind].Member,
     ErrorName |-> Outbound[kind].ErrorName, Dest |-> Outbound[kind].Dest,
     Sig |-> IF body THEN Str(BytesOf(String(valSig))) ELSE Str(<<>>),
     Params |-> IF body THEN <<valVal>> ELSE <<>>]

\* message.go: msg._Marshal() for an outbound message; the frame goes to
\* the peer, which reads it back, or the panic ends the caller.
Marshal(kind, ser, body) ==
    /\ valPc = "input"
    /\ valStart = 0
    /\ \E r \in {_Marshal(OutMessage(kind, ser, body))} :
         /\ valPc' = IF r.panic # "nil" THEN "crashed" ELSE "framed"
         /\ valMsg' = r
    /\ valEnc' = "_Marshal"
    /\ valHdr' = OutMessage(kind, ser, body)
    /\ UNCHANGED <<valSig, valVal, valStart, valErr, valDec, valOut>>
    /\ UNCHANGED valOthers

\* The buffer given to a decoder ends early: the last n bytes of the bytes
\* putValue wrote are missing (a peer's message that stops short); the cursor
\* kept in valMsg is the end of the whole value.
Truncate(n) ==
    /\ valPc = "encoded"
    /\ valEnc = "putValue"
    /\ valMsg.panic = "nil"
    /\ n \in 1..(Len(valMsg.Data) - valStart)
    /\ valEnc' = "cut"
    /\ valMsg' = [valMsg EXCEPT
                    !.Data = SubSeq(valMsg.Data, 1, Len(valMsg.Data) - n)]
    /\ UNCHANGED <<valSig, valVal, valStart, valPc, valErr, valDec, valOut,
                   valHdr>>
    /\ UNCHANGED valOthers

ValNext ==
    \/ AppendValue
    \/ PutValue
    \/ \E x \in WireBools : Received(x)
    \/ VariantArrives
    \/ ParseVariants
    \/ ScanValue
    \/ \E order \in {LittleEndian, BigEndian}, ser \in FrameSerials,
          rs \in FrameReplies : FrameArrives(order, ser, rs)
    \/ \E kind \in DOMAIN Outbound, ser \in FrameSerials, body \in BOOLEAN :
          Marshal(kind, ser, body)
    \/ Unmarshal
    \/ \E order \in {LittleEndian, BigEndian}, rs \in FrameReplies,
           dmg \in Damages, more \in BOOLEAN :
          StreamArrives(order, rs, dmg, more)
    \/ HandleReplies
    \/ ScanHeader
    \/ \E n \in 1..MaxCut : Truncate(n)

SpecVal == ValInit /\ [][ValNext]_vars

\* C15: a value encoded by appendValue and decoded by parseVariants with the
\* same signature from the same offset: neither returns an error, the value
\* decoded is the value encoded, and the cursor is at the end of the bytes.
C15_ValueRoundTrip ==
    (valPc = "decoded" /\ valEnc = "appendValue" /\ valDec = "parseVariants")
        => /\ valErr = "nil"
           /\ valOut.err = "nil"
           /\ valOut.panic = "nil"
           /\ valOut.vals = <<valVal>>
           /\ valOut.Idx = Len(valMsg.Data)

\* rawmessage.go: var alignment: the alignment of each type, by the first
\* character of its signature.
alignment ==
    [y |-> 1, b |-> 4, n |-> 2, q |-> 2, i |-> 4, u |-> 4, x |-> 8, t |-> 8,
     d |-> 8, s |-> 4, o |-> 4, g |-> 1, a |-> 4, v |-> 1]

Alignment(sig) ==
    CASE sig.kind = "basic" -> alignment[sig.code]
      [] sig.kind \in {"array", "dict"} -> alignment["a"]
      [] sig.kind = "struct" -> 8

\* The smallest multiple of a that is not below n.
AlignUp(n, a) == CHOOSE m \in n..(n + a - 1) : m % a = 0

\* The basic codes in a signature node.
RECURSIVE Codes(_)
Codes(sig) ==
    CASE sig.kind = "basic" -> {sig.code}
      [] sig.kind = "array" -> Codes(sig.elem)
      [] sig.kind = "struct" ->
           UNION {Codes(sig.fields[i]) : i \in DOMAIN sig.fields}
      [] sig.kind = "dict" -> {sig.key} \cup Codes(sig.value)

\* marshall.go: the basic codes appendValue encodes, and those parseVariants
\* decodes.
AppendCodes == {"y", "s", "u", "i"}
ParseCodes == {"b", "y", "n", "q", "u", "s", "o", "g"}

\* The bytes have been produced by appendValue without an error.
Appended == valPc \in {"encoded", "decoded"} /\ valEnc = "appendValue"

\* C16: the length appendValue writes for an array counts the bytes from
\* the first element, which starts at the element's alignment after the
\* length field, to the end of the last; it is 0 for an empty array.
C16_LengthExcludesPadding ==
    (Appended /\ valSig.kind = "array" /\ Codes(valSig) \subseteq AppendCodes)
        => LET lenAt == AlignUp(valStart, 4)
               first == AlignUp(lenAt + 4, Alignment(valSig.elem))
           IN Uint(LittleEndian, SubSeq(valMsg.Data, lenAt + 1, lenAt + 4))
                = IF valVal = <<>> THEN 0 ELSE valMsg.Idx - first

\* The signature a(su).
SuArray == arraySig(structSig(<<basicSig("s"), basicSig("u")>>))

\* The layout of an array of (string, uint32) pairs encoded from offset 0:
\* SuPair is a pair's length-prefixed string with its NUL, zeros up to a
\* multiple of 4, and the number; SuPairs puts zeros before each pair up to
\* a multiple of 8, n being the offset reached; SuLayout puts before them
\* the number of bytes that follow the length field.
SuPair(p) ==
    LET s == LEBytes(Len(p[1].str), 4) \o p[1].str \o <<0>>
    IN s \o Zeros((4 - (Len(s) % 4)) % 4) \o LEBytes(p[2], 4)

RECURSIVE SuPairs(_, _)
SuPairs(ps, n) ==
    IF ps = <<>> THEN <<>>
    ELSE LET pad == (8 - (n % 8)) % 8 IN
         Zeros(pad) \o SuPair(Head(ps))
           \o SuPairs(Tail(ps), n + pad + Len(SuPair(Head(ps))))

SuLayout(ps) == LEBytes(Len(SuPairs(ps, 4)), 4) \o SuPairs(ps, 4)

BasicSize(sig, val) ==
    IF sig.code \in DOMAIN FixedWidth THEN FixedWidth[sig.code]
    ELSE IF sig.code = "g" THEN 1 + Len(val.str) + 1
    ELSE 4 + Len(val.str) + 1

\* C18: Round and _Align give the smallest multiple of 1, 2, 4, 8 not below
\* the offset, and each encoder and decoder, for each basic code it handles
\* and for an empty array, leaves the cursor at the value's size after the
\* offset rounded up to the type's alignment.
C18_CursorAligned ==
    /\ valPc # "off" =>
         \A a \in {1, 2, 4, 8} :
             /\ Round(msgData(LittleEndian, <<>>, valStart), a).Idx
                  = AlignUp(valStart, a)
             /\ _Align(a, valStart) = AlignUp(valStart, a)
    /\ (valPc \in {"encoded", "decoded"} /\ valEnc \in {"appendValue", "putValue"}
          /\ ((valSig.kind = "basic" /\ valSig.code \in ValCodes)
                \/ (valSig.kind = "array" /\ valVal = <<>>)))
        => LET end == AlignUp(valStart, Alignment(valSig))
                        + IF valSig.kind = "array" THEN 4
                          ELSE BasicSize(valSig, valVal)
           IN /\ (valEnc = "putValue" \/ valSig.kind = "array"
                    \/ valSig.code \in AppendCodes) => valMsg.Idx = end
              /\ (valPc = "decoded" /\ valEnc = "putValue"
                    /\ valDec = "scanValue") => valOut.Idx = end
              /\ (valPc = "decoded" /\ valEnc = "putValue"
                    /\ valDec = "parseVariants"
                    /\ (valSig.kind = "array" \/ valSig.code \in ParseCodes))
                   => valOut.Idx = end

\* C19: a boolean whose wire value is neither 0 nor 1 is decoded with an
\* error; without an error, false comes from 0 only and true from 1 only.
C19_InvalidBoolean ==
    (valPc = "decoded" /\ valEnc = "wire") =>
        /\ valVal \notin {0, 1} => valOut.err # "nil"
        /\ valOut.err = "nil" => valOut.vals = <<valVal = 1>>

\* C20: a frame whose tag is 'B' is taken off the stream and unmarshalled to
\* what the little-endian frame of the same message gives: the same size,
\* header, fields and parameters.
C20_BigEndianFrame ==
    (valPc = "unmarshalled" /\ valMsg.Endianness = BigEndian)
        => valOut = Unmarshalled(FrameOf(LittleEndian, valHdr.Serial,
                                         valHdr.ReplySerial, valSig, valVal))

\* C21: a decoder given a buffer that ends before the end of the value
\* returns an error to its caller: it ends, and not in a panic that nothing
\* recovers.
C21_TruncatedIsError ==
    (valPc = "decoded" /\ valEnc = "cut")
        => /\ valOut.err \notin {"nil", "panic", "loops forever"}
           /\ valOut.panic = "nil"

\* C29: the element loop of an array ends in both decoders when the buffer
\* ends before the array does.
C29_ArrayLoopEnds ==
    (valPc = "decoded" /\ valEnc = "cut" /\ valSig.kind = "array")
        => valOut.err # "loops forever"

\* C22: parseVariants gives exactly one value for a variant, and an error
\* for a variant whose signature holds no type or more than one.
C22_VariantIsOneValue ==
    (valPc = "decoded" /\ valEnc = "variant" /\ valDec = "parseVariants")
        => /\ Len(valVal.sigs) # 1 => valOut.err # "nil"
           /\ valOut.err = "nil" => Len(valOut.vals) = 1

\* C23: _Marshal returns a frame for every outbound message; in the frame
\* the number at offset 4 is the length of the body and the number at offset
\* 12 the length of the fields, the body starting at the multiple of 8 after
\* them; unmarshal of the frame succeeds and gives the type, flags, protocol,
\* serial, path, interface, member, destination, error name, reply serial
\* and signature of the message.
C23_MarshalRoundTrip ==
    valEnc = "_Marshal" =>
        /\ valPc # "crashed"
        /\ LET bodyLen == Uint(LittleEndian, SubSeq(valMsg.Data, 5, 8))
               fldLen == Uint(LittleEndian, SubSeq(valMsg.Data, 13, 16))
           IN /\ Len(valMsg.Data) = 16 + AlignUp(fldLen, 8) + bodyLen
              /\ bodyLen = 0 <=> valHdr.Params = <<>>
        /\ valPc = "unmarshalled" =>
             /\ valOut.msg.err = "nil"
             /\ valOut.msg.panic = "nil"
             /\ \A f \in {"Type", "Flags", "Protocol", "serial", "Path",
                           "Iface", "Member", "Dest", "ErrorName",
                           "replySerial", "Sig"} :
                    valOut.msg[f] = valHdr[f]

\* C24: popMessage takes exactly the frames off the stream: every frame it
\* hands to dispatch starts where a frame sent starts and has that frame's
\* size (16, the length of the fields rounded up to 8, and the length of
\* the body); when the stream ends inside a frame the reader ends with the
\* error of an incomplete message.
C24_PopMessageTakesFrame ==
    (valEnc = "stream" /\ valHdr.dmg # "tag") =>
        /\ \A i \in 1..Len(valOut.frames) :
              /\ i <= Len(valHdr.frames)
              /\ valOut.frames[i].at = valHdr.frames[i].at
              /\ valOut.frames[i].size = valHdr.frames[i].size
        /\ (valPc = "closed" /\ valHdr.dmg \in Cuts)
              => valOut.err = "incomplete message"

\* C28: every frame popMessage returns without an error has at least the 16
\* bytes of its header, and the reader has moved past it.
C28_PopMessageProgress ==
    valEnc = "stream" =>
        \A i \in 1..Len(valOut.frames) :
            /\ valOut.frames[i].size >= 16
            /\ valMsg.Idx >= valOut.frames[i].at + 16

\* C25: after a frame with a malformed header (a tag that is no byte order,
\* a header field that cannot be decoded) the reader has ended and no frame
\* that follows is handed to dispatch.
C25_MalformedHeaderCloses ==
    (valEnc = "stream" /\ valHdr.dmg \in {"tag", "field 0", "field 10"}) =>
        \A i \in 1..Len(valOut.frames) : valOut.frames[i].at < valHdr.first

\* C26: for a header field with the number 0 scanHeader returns an error and
\* does not panic; a header field with the number 10 is passed over without
\* an error, and the fields after it are decoded.
C26_UnknownHeaderFields ==
    valPc = "scanned" =>
        /\ valHdr.dmg = "field 0" => valOut.panic = "nil" /\ valOut.err # "nil"
        /\ valHdr.dmg = "field 10" =>
              /\ valOut.panic = "nil"
              /\ valOut.err = "nil"
              /\ valOut.flds[5] = valHdr.ReplySerial
              /\ valOut.flds[8] = Str(BytesOf(String(valSig)))

\* C27: the reader puts on a reply channel only frames whose type is method
\* return or error, and dispatch removes a table entry only for such a frame.
C27_RepliesOnly ==
    [][/\ \A k \in Calls :
             Len(chan'[k]) > Len(chan[k]) =>
                 chan'[k][Len(chan'[k])].type \in {TypeMethodReturn, TypeError}
       /\ (readerPc = "delete" /\ readerPc' # "delete"
              /\ rmsg.type \notin {TypeMethodReturn, TypeError})
             => replyChans' = replyChans]_vars

\* C30: the reader is never about to send on a reply channel that holds a
\* frame: when dispatch reaches its send the channel is empty and no entry of
\* the table leads to it any more, and no channel ever holds more than the
\* one frame of its capacity.
C30_SendNeverBlocks ==
    /\ \A k \in Calls : Len(chan[k]) <= 1
    /\ readerPc = "send" =>
          /\ rch \in Calls
          /\ chan[rch] = <<>>
          /\ \A s \in DOMAIN replyChans : replyChans[s] # rch

\* C30 witness: the reader is at its send for a call that has not reached
\* its receive yet, while another frame with the same reply serial is on its
\* way.
C30_Witness ==
    /\ readerPc = "send"
    /\ pc[rch] = "write"
    /\ \E i \in DOMAIN inbox : inbox[i].replySerial = rmsg.replySerial

====
